---- MODULE Spec2Model ----
(***************************************************************************)
(* Model of the AWT data averaging script (src/generate_averaged_data.js): *)
(* main fetches the raw fixes, processData filters them, groups them by    *)
(* tagId, calls calculateRollingAverages on every group, sorts the         *)
(* concatenated result, and saveAveragedData writes it with its metadata.  *)
(* Further down: fetchRawData event by event, and the HTTP handlers of     *)
(* src/server.js and src/api/historical-data-by-year.js that serve the raw *)
(* and the averaged data.                                                  *)
(*                                                                         *)
(* Units.  An input latitude or longitude is an integer number of 1e-7     *)
(* degrees; an output latitude or longitude, which toFixed(6) rounds to 6  *)
(* decimals, is an integer number of 1e-6 degrees.  Timestamps are epoch   *)
(* seconds.  A calendar date "YYYY-MM-DD" is the integer YYYYMMDD.         *)
(* A tagId is a number, as in the documented data format ("tagId": 1337),  *)
(* or the string of the digits of one (see StringId).  A field a record    *)
(* does not have reads as Undefined.                                       *)
(***************************************************************************)
EXTENDS Integers, Sequences, FiniteSets, TLC

VARIABLES upstream, ingested, pc, rawData, result, file, directCall, calls,
          http, fetch

vars ==
    <<upstream, ingested, pc, rawData, result, file, directCall, calls, http,
      fetch>>

(***************************************************************************)
(* JavaScript values that are not numbers.                                 *)
(***************************************************************************)
\* the value of a property the object does not have
Undefined == 2000000001
\* the result of arithmetic on undefined
NaN == 2000000002

IsNumber(v) == v # Undefined /\ v # NaN

\* a + b of two JS numbers
Plus(a, b) == IF IsNumber(a) /\ IsNumber(b) THEN a + b ELSE NaN

\* a - b of two JS numbers
Minus(a, b) == IF IsNumber(a) /\ IsNumber(b) THEN a - b ELSE NaN

\* a < b of JS: false as soon as one side is undefined or NaN
LessThan(a, b) == IsNumber(a) /\ IsNumber(b) /\ a < b

(***************************************************************************)
(* Program constants.                                                      *)
(***************************************************************************)
\* the loop and the window written for six fixes instead of seven
WindowSpan_Short == 6 - 1

\* for (let i = 6; ...) and windowStart = i - 6
WindowSpan == 6
\* rolling_window_days: 7
RollingWindowDays == 7
\* toFixed(6): one output unit (1e-6 degree) is 10 input units (1e-7 degree)
FixedUnit == 10
\* timestamp * 1000 milliseconds; a day has 86400 seconds
SecondsPerDay == 86400

(***************************************************************************)
(* new Date(ts * 1000).toISOString().split('T')[0]: the UTC calendar date  *)
(* of an epoch second, as the integer YYYYMMDD (proleptic Gregorian).      *)
(***************************************************************************)
CivilFromDays(z0) ==
    LET z   == z0 + 719468
        era == z \div 146097
        doe == z - era * 146097
        yoe == (doe - doe \div 1460 + doe \div 36524 - doe \div 146096) \div 365
        y   == yoe + era * 400
        doy == doe - (365 * yoe + yoe \div 4 - yoe \div 100)
        mp  == (5 * doy + 2) \div 153
        d   == doy - (153 * mp + 2) \div 5 + 1
        m   == IF mp < 10 THEN mp + 3 ELSE mp - 9
        yy  == IF m <= 2 THEN y + 1 ELSE y
    IN  yy * 10000 + m * 100 + d

\* the calendar date of the local time zone, two hours ahead of UTC
ISODate_Local(ts) == CivilFromDays((ts + 7200) \div SecondsPerDay)

ISODate(ts) == CivilFromDays(ts \div SecondsPerDay)

(***************************************************************************)
(* Number(x.toFixed(6)) of x = sum / n, sum in 1e-7 degrees: the nearest   *)
(* multiple of 1e-6 degree, -0 being 0.  toFixed rounds the exact value of *)
(* the double x, so that where sum / n lies half-way between two multiples *)
(* the outcome depends on the double; half-way cases are written here as   *)
(* rounding away from zero, and the datasets of the model have none        *)
(* (NoRoundingTie): their coordinates have 6 decimals, as in the           *)
(* documented data format, and n = 7 is odd.  Elsewhere the error of the   *)
(* double sum and quotient (about 1e-14 degree) is far below the distance  *)
(* to a half-way point (at least 1e-7 / 7 degree) and both roundings       *)
(* agree.                                                                  *)
(***************************************************************************)
Abs(x) == IF x < 0 THEN -x ELSE x

\* toFixed(6) replaced by Math.floor(x * 1e6) / 1e6
ToFixed6_Floor(sum, n) ==
    IF ~IsNumber(sum) THEN NaN ELSE sum \div (FixedUnit * n)

ToFixed6(sum, n) ==
    IF ~IsNumber(sum) THEN NaN
    ELSE LET r == (Abs(sum) + (FixedUnit * n) \div 2) \div (FixedUnit * n)
         IN  IF sum < 0 THEN -r ELSE r

(***************************************************************************)
(* Array.prototype.sort((a, b) => a.timestamp - b.timestamp): a stable     *)
(* insertion of every element behind the elements that do not compare      *)
(* greater.  SortCompare turns a NaN result of the comparator into +0; the *)
(* comparator is then inconsistent and the order is implementation-defined *)
(* (see ComparatorConsistent).                                             *)
(***************************************************************************)
CompareTimestamp(a, b) == Minus(a.timestamp, b.timestamp)

SortCompare(a, b) ==
    LET v == CompareTimestamp(a, b) IN IF v = NaN THEN 0 ELSE v

\* an unstable sort: the element is inserted in front of its ties
InsertSorted_Unstable(s, x) ==
    LET p == Cardinality({j \in 1..Len(s) : SortCompare(s[j], x) < 0})
    IN  SubSeq(s, 1, p) \o <<x>> \o SubSeq(s, p + 1, Len(s))

InsertSorted(s, x) ==
    LET p == Cardinality({j \in 1..Len(s) : SortCompare(s[j], x) <= 0})
    IN  SubSeq(s, 1, p) \o <<x>> \o SubSeq(s, p + 1, Len(s))

RECURSIVE SortFrom(_, _, _)
SortFrom(s, j, acc) ==
    IF j > Len(s) THEN acc ELSE SortFrom(s, j + 1, InsertSorted(acc, s[j]))

\* an unstable sort: ties come out in the reverse of their input order
SortByTimestamp_TiesReversed(s) ==
    SortFrom([j \in 1..Len(s) |-> s[Len(s) + 1 - j]], 1, <<>>)

SortByTimestamp(s) == SortFrom(s, 1, <<>>)

\* the comparator never returns NaN on the elements of s
ComparatorConsistent(s) ==
    Len(s) < 2 \/ \A j \in 1..Len(s) : IsNumber(s[j].timestamp)

(***************************************************************************)
(* calculateRollingAverages(animalData).  Indices are the source's 0-based *)
(* ones; sortedData[i] of the source is sortedData[i + 1] here.            *)
(***************************************************************************)
\* sortedData.slice(windowStart, i + 1)
Slice(s, from, to) == SubSeq(s, from + 1, to)

RECURSIVE SumLatitude(_, _)
SumLatitude(w, j) ==
    IF j > Len(w) THEN 0 ELSE Plus(w[j].latitude, SumLatitude(w, j + 1))

RECURSIVE SumLongitude(_, _)
SumLongitude(w, j) ==
    IF j > Len(w) THEN 0 ELSE Plus(w[j].longitude, SumLongitude(w, j + 1))

\* slice(windowStart + 1, i + 1): the window loses its first fix
AveragedPoint_ShortSlice(sortedData, i) ==
    LET windowStart == i - WindowSpan
        windowData  == Slice(sortedData, windowStart + 1, i + 1)
    IN  [tagId          |-> sortedData[i + 1].tagId,
         timestamp      |-> sortedData[i + 1].timestamp,
         latitude       |-> ToFixed6(SumLatitude(windowData, 1), Len(windowData)),
         longitude      |-> ToFixed6(SumLongitude(windowData, 1), Len(windowData)),
         daysUsed       |-> Len(windowData),
         originalPoints |-> Len(windowData),
         dateRange      |-> [start |-> ISODate(sortedData[windowStart + 1].timestamp),
                             end   |-> ISODate(sortedData[i + 1].timestamp)]]

\* the record anchored at the first fix of the window instead of the last
AveragedPoint_AnchorFirst(sortedData, i) ==
    LET windowStart == i - WindowSpan
        windowData  == Slice(sortedData, windowStart, i + 1)
    IN  [tagId          |-> sortedData[windowStart + 1].tagId,
         timestamp      |-> sortedData[windowStart + 1].timestamp,
         latitude       |-> ToFixed6(SumLatitude(windowData, 1), Len(windowData)),
         longitude      |-> ToFixed6(SumLongitude(windowData, 1), Len(windowData)),
         daysUsed       |-> Len(windowData),
         originalPoints |-> Len(windowData),
         dateRange      |-> [start |-> ISODate(sortedData[windowStart + 1].timestamp),
                             end   |-> ISODate(sortedData[i + 1].timestamp)]]

\* the object pushed for index i
AveragedPoint(sortedData, i) ==
    LET windowStart == i - WindowSpan
        windowData  == Slice(sortedData, windowStart, i + 1)
    IN  [tagId          |-> sortedData[i + 1].tagId,
         timestamp      |-> sortedData[i + 1].timestamp,
         latitude       |-> ToFixed6(SumLatitude(windowData, 1), Len(windowData)),
         longitude      |-> ToFixed6(SumLongitude(windowData, 1), Len(windowData)),
         daysUsed       |-> Len(windowData),
         originalPoints |-> Len(windowData),
         dateRange      |-> [start |-> ISODate(sortedData[windowStart + 1].timestamp),
                             end   |-> ISODate(sortedData[i + 1].timestamp)]]

\* for (let i = 6; i < sortedData.length; i++) averagedData.push(...)
RECURSIVE RollingLoop(_, _, _)
RollingLoop(sortedData, i, averagedData) ==
    IF i < Len(sortedData)
    THEN RollingLoop(sortedData, i + 1,
                     Append(averagedData, AveragedPoint(sortedData, i)))
    ELSE averagedData

\* the windows taken over animalData as passed, without the sort of line 80
calculateRollingAverages_NoSort(animalData) ==
    IF Len(animalData) = 0
    THEN [status |-> "ok", sorted |-> animalData, averaged |-> <<>>]
    ELSE IF Len(animalData) > WindowSpan /\ ~ComparatorConsistent(animalData)
         THEN [status |-> "impl_defined", sorted |-> animalData, averaged |-> <<>>]
         ELSE [status   |-> "ok",
               sorted   |-> animalData,
               averaged |-> RollingLoop(animalData, WindowSpan, <<>>)]

\* the loop started at i = 7: the first window is skipped
calculateRollingAverages_SkipFirst(animalData) ==
    IF Len(animalData) = 0
    THEN [status |-> "ok", sorted |-> animalData, averaged |-> <<>>]
    ELSE LET sortedData == SortByTimestamp(animalData) IN
         IF Len(sortedData) > WindowSpan /\ ~ComparatorConsistent(animalData)
         THEN [status |-> "impl_defined", sorted |-> animalData, averaged |-> <<>>]
         ELSE [status   |-> "ok",
               sorted   |-> sortedData,
               averaged |-> RollingLoop(sortedData, WindowSpan + 1, <<>>)]

(* The call's outcome: status "ok" with the returned array, or             *)
(* "impl_defined" when the sort order, and with it the windows and whether *)
(* toISOString throws on a NaN date, is left to the engine.  sorted is the *)
(* array animalData after the call (sort works in place).                  *)
calculateRollingAverages(animalData) ==
    IF Len(animalData) = 0
    THEN [status |-> "ok", sorted |-> animalData, averaged |-> <<>>]
    ELSE LET sortedData == SortByTimestamp(animalData) IN
         IF Len(sortedData) > WindowSpan /\ ~ComparatorConsistent(animalData)
         THEN [status |-> "impl_defined", sorted |-> animalData, averaged |-> <<>>]
         ELSE [status   |-> "ok",
               sorted   |-> sortedData,
               averaged |-> RollingLoop(sortedData, WindowSpan, <<>>)]

(***************************************************************************)
(* processData(rawData).                                                   *)
(***************************************************************************)
\* point => point.latitude <= 0
IsValid_Inclusive(point) == LessThan(point.latitude, 1)

\* point => point.latitude < 0
IsValid(point) == LessThan(point.latitude, 0)

\* no fix filtered out
FilterValid_None(raw) == raw

\* rawData.filter(point => point.latitude < 0)
FilterValid(raw) == SelectSeq(raw, IsValid)

(* dataByTag[point.tagId]: the property key is ToString(tagId).  A tagId   *)
(* parsed from the JSON body is a number or a string: a non-negative       *)
(* integer n stands for the number n, StringId(n) for the string of the    *)
(* decimal digits of n, so that 42 and "42" are different values.  The key *)
(* of either is the digits of n (most significant first); the key of a     *)
(* missing tagId is the word "undefined" (written <<Undefined>> here).     *)
Radix == 10

StringId(n) == -1 - n

IsStringId(tagId) == tagId < 0

RECURSIVE Digits(_)
Digits(n) == IF n < Radix THEN <<n>> ELSE Digits(n \div Radix) \o <<n % Radix>>

UndefinedKey == <<Undefined>>

\* every tagId filed under the one key "tag"
PropertyKey_Constant(tagId) == <<0>>

PropertyKey(tagId) ==
    IF tagId = Undefined THEN UndefinedKey
    ELSE IF IsStringId(tagId) THEN Digits(-1 - tagId)
    ELSE Digits(tagId)

\* the array index a key of decimal digits denotes
RECURSIVE KeyIndex(_)
KeyIndex(key) ==
    IF Len(key) = 0 THEN 0
    ELSE KeyIndex(SubSeq(key, 1, Len(key) - 1)) * Radix + key[Len(key)]

\* the keys of S in ascending order of the array index they denote
RECURSIVE Ascending(_)
Ascending(S) ==
    IF S = {} THEN <<>>
    ELSE LET m == CHOOSE x \in S : \A y \in S : KeyIndex(x) <= KeyIndex(y)
         IN  <<m>> \o Ascending(S \ {m})

(* Object.keys(dataByTag): the property keys made of the tagIds of the     *)
(* filtered points.  Keys that are array indices come first in ascending   *)
(* numeric order; the key "undefined" of points without tagId follows.     *)
ObjectKeys(filteredData) ==
    LET keys == {PropertyKey(filteredData[j].tagId) : j \in 1..Len(filteredData)}
    IN  Ascending(keys \ {UndefinedKey})
        \o (IF UndefinedKey \in keys THEN <<UndefinedKey>> ELSE <<>>)

\* every group holding all the filtered points
GroupOf_All(filteredData, tagId) == filteredData

\* dataByTag[tagId] as the forEach of lines 131-136 leaves it
GroupOf(filteredData, tagId) ==
    LET SameKey(point) == PropertyKey(point.tagId) = tagId
    IN  SelectSeq(filteredData, SameKey)

\* one iteration of Object.keys(dataByTag).forEach(tagId => ...)
TagStep(acc, filteredData, tagId) ==
    LET animalData == GroupOf(filteredData, tagId)
        call       == calculateRollingAverages(animalData)
    IN  [status              |-> IF call.status = "ok" THEN acc.status ELSE call.status,
         groups              |-> Append(acc.groups,
                                        [tagId      |-> tagId,
                                         animalData |-> animalData,
                                         status     |-> call.status,
                                         sorted     |-> call.sorted,
                                         averaged   |-> call.averaged]),
         allAveragedData     |-> acc.allAveragedData \o call.averaged,
         totalOriginalPoints |-> acc.totalOriginalPoints + Len(animalData),
         totalAveragedPoints |-> acc.totalAveragedPoints + Len(call.averaged)]

RECURSIVE ForEachTag(_, _, _, _)
ForEachTag(keys, j, filteredData, acc) ==
    IF j > Len(keys) THEN acc
    ELSE ForEachTag(keys, j + 1, filteredData, TagStep(acc, filteredData, keys[j]))

\* the final sort left out
SortFinal_Skipped(allAveragedData) == allAveragedData

\* allAveragedData.sort((a, b) => a.timestamp - b.timestamp)
SortFinal(allAveragedData) == SortByTimestamp(allAveragedData)

(* The outcome of processData: status "ok" and data, the returned array,   *)
(* with the locals the claims are about (allAveragedData is the array      *)
(* before the final sort); status "impl_defined" when a call of            *)
(* calculateRollingAverages is.                                            *)
\* the quotient cut off after the first decimal instead of rounded
Reduction_Truncated(totalAveragedPoints, totalOriginalPoints) ==
    IF totalOriginalPoints = 0 THEN NaN
    ELSE ((totalOriginalPoints - totalAveragedPoints) * 1000) \div totalOriginalPoints

(* ((1 - totalAveragedPoints / totalOriginalPoints) * 100).toFixed(1) of   *)
(* the log of line 164, in tenths of a percent; 0 / 0 is NaN and prints as *)
(* "NaN".  toFixed rounds the exact value of the double: where the         *)
(* quotient lies half-way between two tenths the outcome depends on the    *)
(* double (29 of 80 gives 63.74999999999999 and prints 63.7).  For the     *)
(* totals this model reaches the doubles were evaluated and every half-way *)
(* value (such as 1 of 16, 93.75) prints rounded up, as written here.      *)
Reduction(totalAveragedPoints, totalOriginalPoints) ==
    IF totalOriginalPoints = 0 THEN NaN
    ELSE ((totalOriginalPoints - totalAveragedPoints) * 1000 * 2 + totalOriginalPoints)
             \div (2 * totalOriginalPoints)

\* allAveragedData kept at module level: it starts as the last call left it
processData_Accumulating(raw) ==
    LET originalCount == Len(raw)
        filteredData  == FilterValid(raw)
        carried == IF Len(calls) = 0 THEN <<>> ELSE calls[Len(calls)].data
        loop == ForEachTag(ObjectKeys(filteredData), 1, filteredData,
                           [status |-> "ok", groups |-> <<>>, allAveragedData |-> carried,
                            totalOriginalPoints |-> 0, totalAveragedPoints |-> 0])
    IN  [status              |-> loop.status,
         filteredData        |-> filteredData,
         filteredCount       |-> originalCount - Len(filteredData),
         groups              |-> loop.groups,
         totalOriginalPoints |-> loop.totalOriginalPoints,
         totalAveragedPoints |-> loop.totalAveragedPoints,
         reduction           |-> Reduction(loop.totalAveragedPoints,
                                           loop.totalOriginalPoints),
         allAveragedData     |-> loop.allAveragedData,
         data                |-> SortFinal(loop.allAveragedData)]

processData(raw) ==
    LET originalCount == Len(raw)
        filteredData  == FilterValid(raw)
        loop == ForEachTag(ObjectKeys(filteredData), 1, filteredData,
                           [status |-> "ok", groups |-> <<>>, allAveragedData |-> <<>>,
                            totalOriginalPoints |-> 0, totalAveragedPoints |-> 0])
    IN  [status              |-> loop.status,
         filteredData        |-> filteredData,
         filteredCount       |-> originalCount - Len(filteredData),
         groups              |-> loop.groups,
         totalOriginalPoints |-> loop.totalOriginalPoints,
         totalAveragedPoints |-> loop.totalAveragedPoints,
         reduction           |-> Reduction(loop.totalAveragedPoints,
                                           loop.totalOriginalPoints),
         allAveragedData     |-> loop.allAveragedData,
         data                |-> SortFinal(loop.allAveragedData)]

\* no call of processData has returned yet
NoResult ==
    [status |-> "none", filteredData |-> <<>>, filteredCount |-> 0, groups |-> <<>>,
     totalOriginalPoints |-> 0, totalAveragedPoints |-> 0, reduction |-> NaN,
     allAveragedData |-> <<>>, data |-> <<>>]

(***************************************************************************)
(* saveAveragedData(averagedData): the document written to OUTPUT_FILE.    *)
(* generated_at, the description and the privacy note hold no model state. *)
(***************************************************************************)
\* total_points taken from the points that went into the averages
saveAveragedData_OriginalPoints(averagedData) ==
    [written  |-> TRUE,
     metadata |-> [rolling_window_days |-> RollingWindowDays,
                   total_animals |->
                       Cardinality({averagedData[j].tagId : j \in 1..Len(averagedData)}),
                   total_points  |-> Len(averagedData) * RollingWindowDays],
     data     |-> averagedData]

saveAveragedData(averagedData) ==
    [written  |-> TRUE,
     metadata |-> [rolling_window_days |-> RollingWindowDays,
                   total_animals |->
                       Cardinality({averagedData[j].tagId : j \in 1..Len(averagedData)}),
                   total_points  |-> Len(averagedData)],
     data     |-> averagedData]

\* OUTPUT_FILE has not been written
NoFile ==
    [written  |-> FALSE,
     metadata |-> [rolling_window_days |-> 0, total_animals |-> 0, total_points |-> 0],
     data     |-> <<>>]

(***************************************************************************)
(* The raw datasets.  The API serves the cumulative file of fixes; the     *)
(* model starts from one of a few datasets and appends up to MaxIngest     *)
(* further fixes, well-formed or not, before a run fetches it.             *)
(***************************************************************************)
MaxIngest == 2

Fix(tag, ts, lat, lng) ==
    [tagId |-> tag, timestamp |-> ts, latitude |-> lat, longitude |-> lng]

\* input units (1e-7 degree) of d degrees
Deg(d) == d * FixedUnit * 1000000

\* 00:00:00 UTC of the k-th day after 2024-01-01 (day 19723 of the epoch)
T(k) == (19723 + k) * SecondsPerDay

TagA == 42
TagB == 7

\* seven fixes of one entity, latitudes -1 .. -7 degrees
SeedRounding == [k \in 1..7 |-> Fix(TagA, T(k - 1), Deg(-k), Deg(25))]

\* eight fixes on consecutive days, latitudes -10 (seven times) and -20
SeedEntity42 ==
    [k \in 1..8 |-> Fix(TagA, T(k - 1), IF k = 8 THEN Deg(-20) ELSE Deg(-10), Deg(25))]

\* six fixes of TagB interleaved with nine of TagA, those newest first
SeedMixed ==
    [k \in 1..15 |->
        IF k % 2 = 0 /\ k <= 12
        THEN Fix(TagB, T(k \div 2 - 1), Deg(-19), Deg(24))
        ELSE LET n == IF k <= 12 THEN (k + 1) \div 2 ELSE k - 6
             IN  Fix(TagA, T(9 - n), Deg(-10) - n * 1234570, Deg(25) + n * 20)]

(* two entities with fixes at the same instants, several fixes of one      *)
(* entity within a day, and fixes on and north of the equator in between   *)
SeedTies ==
    <<Fix(TagA, T(0), Deg(-18), Deg(25)),
      Fix(TagB, T(0), Deg(-19), Deg(24)),
      Fix(TagA, T(1) + 3600, Deg(-18) - 50, Deg(25)),
      Fix(TagA, T(1) + 3600, Deg(-17), Deg(25) + 70),
      Fix(TagB, T(1) + 3600, Deg(-19), Deg(24)),
      Fix(TagA, T(2), 0, Deg(25)),
      Fix(TagB, T(2), Deg(-19) + 30, Deg(24)),
      Fix(TagA, T(1) + 7200, Deg(-18), Deg(25)),
      Fix(TagB, T(3), Deg(-19), Deg(24)),
      Fix(TagB, T(2), Deg(5), Deg(24)),
      Fix(TagA, T(3), Deg(-18), Deg(25)),
      Fix(TagB, T(4), Deg(-19), Deg(24) - 90),
      Fix(TagA, T(4), Deg(-18), Deg(25)),
      Fix(TagB, T(5), Deg(-19), Deg(24)),
      Fix(TagA, T(5), Deg(-16), Deg(25)),
      Fix(TagB, T(5), Deg(-19) - 10, Deg(24)),
      Fix(TagB, T(6), Deg(-19), Deg(24))>>

SeedDatasets == {<<>>, SeedRounding, SeedEntity42, SeedMixed, SeedTies}

\* the fixes the upstream feed may append
IngestFixes ==
    {Fix(tag, ts, lat, Deg(25)) :
        tag \in {TagA, TagB},
        ts  \in {T(-1) + 82800, T(3), T(9)},
        lat \in {Deg(-15) - 30, Deg(5)}}
    \cup {Fix(StringId(TagA), T(9), Deg(-15) - 30, Deg(25))}
    \cup {Fix(TagA, T(3), Undefined, Deg(25)),
          Fix(TagA, T(3), Deg(-15), Undefined),
          Fix(TagA, Undefined, Deg(-15), Deg(25)),
          Fix(Undefined, T(3), Deg(-15), Deg(25))}

\* calculateRollingAverages has not been called from outside processData
NoCall ==
    [made |-> FALSE, animalData |-> <<>>, status |-> "none", sorted |-> <<>>,
     averaged |-> <<>>]

(***************************************************************************)
(* The state of the HTTP side while no request has been served and no      *)
(* download has been started.                                              *)
(***************************************************************************)
\* a request that was never made
NoRequest ==
    [method |-> "none",
     authorization |-> [present |-> FALSE, words |-> <<>>],
     year |-> [present |-> FALSE, text |-> <<>>]]

\* the server before its first request
NoHttp ==
    [bucketName |-> FALSE, storage |-> FALSE, timezone |-> 0,
     cumulative |-> <<>>, historical |-> <<>>, endpoint |-> "none",
     request |-> NoRequest, outcome |-> "none", storageCalls |-> <<>>,
     fileReads |-> 0, responses |-> <<>>]

\* https.get has not been called
NoFetch ==
    [phase |-> "idle", statusCode |-> 0, body |-> <<>>, data |-> <<>>,
     promise |-> "pending", value |-> <<>>, error |-> "", settlements |-> 0]

(***************************************************************************)
(* main(): fetch, process, save; any rejection or throw ends in the catch  *)
(* block with process.exit(1).                                             *)
(***************************************************************************)
Init ==
    /\ upstream \in SeedDatasets
    /\ ingested = 0
    /\ pc = "start"
    /\ rawData = <<>>
    /\ result = NoResult
    /\ file = NoFile
    /\ directCall = NoCall
    /\ calls = <<>>
    /\ http = NoHttp
    /\ fetch = NoFetch

\* the upstream feed appends a fix to the dataset the API serves
Ingest(fix) ==
    /\ pc = "start"
    /\ ingested < MaxIngest
    /\ upstream' = Append(upstream, fix)
    /\ ingested' = ingested + 1
    /\ UNCHANGED <<pc, rawData, result, file, directCall, calls, http, fetch>>

\* fetchRawData resolves: status 200 and a body that parses
FetchResolve ==
    /\ pc = "start"
    /\ rawData' = upstream
    /\ pc' = "fetched"
    /\ UNCHANGED <<upstream, ingested, result, file, directCall,
                 calls, http, fetch>>

\* fetchRawData rejects: network error, non-200 status or unparsable body
FetchReject ==
    /\ pc = "start"
    /\ pc' = "exit1"
    /\ UNCHANGED <<upstream, ingested, rawData, result, file, directCall,
                 calls, http, fetch>>

(* fetchRawData's promise never settles: the connection is closed before   *)
(* the body is complete and no listener runs (PrematureClose).  main stays *)
(* at its await, the catch block is not entered, and the process ends with *)
(* an empty event loop and exit code 0.                                    *)
FetchNeverSettles ==
    /\ pc = "start"
    /\ pc' = "exit0"
    /\ UNCHANGED <<upstream, ingested, rawData, result, file, directCall,
                   calls, http, fetch>>

\* const averagedData = processData(rawData)
Process ==
    /\ pc = "fetched"
    /\ result' = processData(rawData)
    /\ pc' = IF result'.status = "ok" THEN "processed" ELSE "impl_defined"
    /\ calls' = IF result'.status = "ok"
                THEN Append(calls, [raw |-> rawData, data |-> result'.data])
                ELSE calls
    /\ UNCHANGED <<upstream, ingested, rawData, file, directCall, http,
                 fetch>>

(* processData throws.  When the order of a timeline is left to the engine *)
(* (status "impl_defined") a fix without timestamp may end up first or     *)
(* last in a window, and new Date(NaN).toISOString() of lines 102-103      *)
(* throws a RangeError; main catches it and exits with 1.  The other       *)
(* outcome, an array of unspecified content, is the pc "impl_defined" of   *)
(* Process.                                                                *)
ProcessThrows ==
    /\ pc = "fetched"
    /\ processData(rawData).status = "impl_defined"
    /\ pc' = "exit1"
    /\ UNCHANGED <<upstream, ingested, rawData, result, file, directCall,
                 calls, http, fetch>>

\* saveAveragedData(averagedData) writes the file
Save ==
    /\ pc = "processed"
    /\ file' = saveAveragedData(result.data)
    /\ pc' = "done"
    /\ UNCHANGED <<upstream, ingested, rawData, result, directCall, calls, http,
                 fetch>>

\* writeFileSync throws; saveAveragedData rethrows and main exits with 1
SaveThrows ==
    /\ pc = "processed"
    /\ pc' = "exit1"
    /\ UNCHANGED <<upstream, ingested, rawData, result, file, directCall,
                 calls, http, fetch>>

(* processData is exported: the module that has processed rawData is asked *)
(* to process another dataset, and to process rawData again.  calls is the *)
(* record of the calls that have returned: argument and data returned.     *)
(* processData leaves its argument as it was (filter and the group arrays  *)
(* are new arrays, no point is written to), so a later call on rawData     *)
(* receives the same sequence.                                             *)
OtherDatasets == {SeedMixed, SeedTies}

ProcessOther ==
    /\ pc = "processed"
    /\ \E other \in OtherDatasets \ {rawData} :
          calls' = Append(calls, [raw |-> other, data |-> processData(other).data])
    /\ pc' = "reprocessing"
    /\ UNCHANGED <<upstream, ingested, rawData, result, file, directCall, http,
                 fetch>>

ProcessAgain ==
    /\ pc \in {"processed", "reprocessing"}
    /\ calls' = Append(calls, [raw |-> rawData, data |-> processData(rawData).data])
    /\ pc' = "reprocessed"
    /\ UNCHANGED <<upstream, ingested, rawData, result, file, directCall, http,
                 fetch>>

(* A caller other than processData (the function is exported) calls        *)
(* calculateRollingAverages on the dataset as one timeline, unfiltered and *)
(* ungrouped, possibly empty.                                              *)
Aggregate ==
    /\ pc = "start"
    /\ directCall' = [made |-> TRUE, animalData |-> upstream] @@ calculateRollingAverages(upstream)
    /\ pc' = "called"
    /\ UNCHANGED <<upstream, ingested, rawData, result, file, calls, http,
                 fetch>>

Next ==
    \/ \E fix \in IngestFixes : Ingest(fix)
    \/ Aggregate
    \/ FetchResolve
    \/ FetchReject
    \/ FetchNeverSettles
    \/ Process
    \/ ProcessThrows
    \/ Save
    \/ SaveThrows

Spec == Init /\ [][Next]_vars

\* main, and callers of the exported processData in the same module instance
NextRepeat ==
    \/ Next
    \/ ProcessOther
    \/ ProcessAgain

SpecRepeat == Init /\ [][NextRepeat]_vars

(***************************************************************************)
(* The summary of processData (lines 141-164) over datasets of many sizes: *)
(* main after fetchRawData has resolved with a dataset of e entities of f  *)
(* fixes each, one more entity of g fixes, and a fix north of the equator  *)
(* in front of the fixes of every entity.                                  *)
(***************************************************************************)
MaxEntities == 10
MaxFixes == 10

\* the fixes of entity tag: one northern fix, then n southern ones, a day apart
EntityFixes(tag, n) ==
    [k \in 1..(n + 1) |->
        IF k = 1 THEN Fix(tag, T(0), Deg(5), Deg(25))
        ELSE Fix(tag, T(k - 2), Deg(-10) - tag * FixedUnit, Deg(25))]

RECURSIVE SummaryDataset(_, _, _)
SummaryDataset(e, f, g) ==
    IF e = 0 THEN EntityFixes(MaxEntities + 1, g)
    ELSE SummaryDataset(e - 1, f, g) \o EntityFixes(e, f)

InitSummary ==
    /\ \E e \in 0..MaxEntities, f, g \in 0..MaxFixes : upstream = SummaryDataset(e, f, g)
    /\ ingested = 0
    /\ pc = "fetched"
    /\ rawData = upstream
    /\ result = NoResult
    /\ file = NoFile
    /\ directCall = NoCall
    /\ calls = <<>>
    /\ http = NoHttp
    /\ fetch = NoFetch

NextSummary ==
    \/ Process
    \/ Save
    \/ SaveThrows

SpecSummary == InitSummary /\ [][NextSummary]_vars

(***************************************************************************)
(* Vocabulary of the properties.                                           *)
(***************************************************************************)
\* every call of calculateRollingAverages made so far: argument and outcome
AllCalls ==
    {[animalData |-> result.groups[j].animalData, status |-> result.groups[j].status,
      sorted |-> result.groups[j].sorted, averaged |-> result.groups[j].averaged] :
        j \in 1..Len(result.groups)}
    \cup (IF directCall.made
          THEN {[animalData |-> directCall.animalData, status |-> directCall.status,
                 sorted |-> directCall.sorted, averaged |-> directCall.averaged]}
          ELSE {})

\* every averaged record that exists: returned by a call, assembled, or written
AllAveraged ==
    UNION {{c.averaged[k] : k \in 1..Len(c.averaged)} : c \in AllCalls}
    \cup {result.data[k] : k \in 1..Len(result.data)}
    \cup {file.data[k] : k \in 1..Len(file.data)}

HasAllFields(fix) ==
    /\ IsNumber(fix.tagId) /\ IsNumber(fix.timestamp)
    /\ IsNumber(fix.latitude) /\ IsNumber(fix.longitude)

WellFormed(s) == \A j \in 1..Len(s) : HasAllFields(s[j])

NonDecreasing(s) == \A j \in 1..(Len(s) - 1) : s[j].timestamp <= s[j + 1].timestamp

\* processData has returned in this run
Processed == result.status = "ok"

(***************************************************************************)
(* C1.  A call of calculateRollingAverages on a timeline of n >= 7 fixes   *)
(* that all carry their fields returns, and returns exactly n - 6 records. *)
(***************************************************************************)
C1_WindowCount ==
    \A c \in AllCalls :
        (Len(c.animalData) >= 7 /\ WellFormed(c.animalData))
            => (c.status = "ok" /\ Len(c.averaged) = Len(c.animalData) - 6)

C1_Witness ==
    \E c \in AllCalls :
        /\ WellFormed(c.animalData)
        /\ Len(c.animalData) = 10
        /\ Len(c.averaged) = 4

(***************************************************************************)
(* C2.  A call of calculateRollingAverages on a timeline of fewer than 7   *)
(* fixes, the empty one included, returns the empty sequence.              *)
(***************************************************************************)
C2_NoPartialWindow ==
    \A c \in AllCalls :
        Len(c.animalData) < 7 => (c.status = "ok" /\ c.averaged = <<>>)

C2_Witness ==
    \E j \in 1..Len(result.groups) :
        /\ Len(result.groups[j].animalData) = 6
        /\ result.groups[j].averaged = <<>>

(***************************************************************************)
(* C3.  Every averaged record, wherever it is, has daysUsed = 7 and        *)
(* originalPoints = 7.                                                     *)
(***************************************************************************)
C3_SevenDays ==
    \A r \in AllAveraged : r.daysUsed = 7 /\ r.originalPoints = 7

C3_Witness ==
    /\ file.written
    /\ Len(file.data) >= 2
    /\ \A k \in 1..Len(file.data) : file.data[k].daysUsed = 7

(***************************************************************************)
(* C4.  The filter of processData keeps, in their order, exactly the       *)
(* records whose latitude is below 0: every such record is kept, no record *)
(* with latitude >= 0 is in a group, processData returns in spite of them, *)
(* and filtering the filtered sequence again changes nothing.              *)
(***************************************************************************)
\* the number of records among the first j of s with latitude below 0
Southern(s, j) == Cardinality({i \in 1..j : IsNumber(s[i].latitude) /\ s[i].latitude < 0})

C4_Filter ==
    Processed =>
        /\ Len(result.filteredData) = Southern(rawData, Len(rawData))
        /\ \A j \in 1..Len(rawData) :
              (IsNumber(rawData[j].latitude) /\ rawData[j].latitude < 0)
                  => result.filteredData[Southern(rawData, j)] = rawData[j]
        /\ result.filteredCount = Len(rawData) - Len(result.filteredData)
        /\ \A g \in 1..Len(result.groups) :
              \A j \in 1..Len(result.groups[g].animalData) :
                  result.groups[g].animalData[j].latitude < 0
        /\ result.totalOriginalPoints = Len(result.filteredData)
        /\ FilterValid(result.filteredData) = result.filteredData

C4_Witness ==
    /\ Processed
    /\ \E j \in 1..Len(rawData) : rawData[j].latitude = 0
    /\ \E j \in 1..Len(rawData) : IsNumber(rawData[j].latitude) /\ rawData[j].latitude > 0
    /\ result.filteredCount >= 2
    /\ Len(result.filteredData) >= 7

(***************************************************************************)
(* C5.  A raw record without latitude, longitude, timestamp or tagId makes *)
(* the run fail: processData does not return a result for such an input.   *)
(***************************************************************************)
C5_MalformedInputFails ==
    Processed => WellFormed(rawData)

(***************************************************************************)
(* C6.  The array processData returns is sorted non-decreasing by          *)
(* timestamp, and sorting it again by timestamp leaves it unchanged.       *)
(***************************************************************************)
C6_SortedOutput ==
    Processed =>
        /\ NonDecreasing(result.data)
        /\ SortByTimestamp(result.data) = result.data

C6_Witness ==
    /\ Processed
    /\ result.allAveragedData # result.data
    /\ \E j, k \in 1..Len(result.data) : result.data[j].tagId # result.data[k].tagId

(***************************************************************************)
(* C7.  The k-th record a call returns (k from 0) carries the timestamp    *)
(* and the tagId of the fix at index k + 6 of the timeline sorted by       *)
(* timestamp, which for a timeline passed in ascending order is the fix at *)
(* index k + 6 of the argument.                                            *)
(***************************************************************************)
AnchoredAt(r, fix) == r.timestamp = fix.timestamp /\ r.tagId = fix.tagId

C7_AnchorIsLastFix ==
    \A c \in AllCalls :
        (c.status = "ok" /\ WellFormed(c.animalData)) =>
            /\ NonDecreasing(c.sorted)
            /\ \A k \in 0..(Len(c.averaged) - 1) :
                  /\ k + 7 <= Len(c.sorted)
                  /\ AnchoredAt(c.averaged[k + 1], c.sorted[k + 7])
                  /\ NonDecreasing(c.animalData)
                        => AnchoredAt(c.averaged[k + 1], c.animalData[k + 7])

C7_Witness ==
    /\ directCall.made
    /\ WellFormed(directCall.animalData)
    /\ NonDecreasing(directCall.animalData)
    /\ Len(directCall.averaged) >= 2
    /\ directCall.averaged[1].tagId # directCall.averaged[2].tagId
    /\ AnchoredAt(directCall.averaged[2], directCall.animalData[8])

(***************************************************************************)
(* C8.  The latitude and the longitude of the k-th record of a call are    *)
(* the mean of the seven fixes at indices k .. k + 6 of the sorted         *)
(* timeline, rounded to the nearest 1e-6 degree.  Latitudes -1 .. -7 give  *)
(* -4.000000; latitudes -10 (seven times) and -20 give two records,        *)
(* -10.000000 at t6 and -11.428571 at t7.                                  *)
(***************************************************************************)
\* out (in 1e-6 degree) is the multiple of 1e-6 nearest to sum / 7 (sum in 1e-7)
NearestToMean(out, sum) == Abs(out * 70 - sum) <= 35

WindowLat(s, k) ==
    s[k].latitude + s[k + 1].latitude + s[k + 2].latitude + s[k + 3].latitude
    + s[k + 4].latitude + s[k + 5].latitude + s[k + 6].latitude

WindowLng(s, k) ==
    s[k].longitude + s[k + 1].longitude + s[k + 2].longitude + s[k + 3].longitude
    + s[k + 4].longitude + s[k + 5].longitude + s[k + 6].longitude

\* no window of the model's datasets has a mean half-way between two roundings
NoRoundingTie ==
    \A c \in AllCalls :
        (c.status = "ok" /\ WellFormed(c.animalData)) =>
            \A k \in 1..Len(c.averaged) :
                /\ Abs(WindowLat(c.sorted, k)) % 70 # 35
                /\ Abs(WindowLng(c.sorted, k)) % 70 # 35

C8_RoundedMean ==
    /\ \A c \in AllCalls :
          (c.status = "ok" /\ WellFormed(c.animalData)) =>
              \A k \in 1..Len(c.averaged) :
                  /\ NearestToMean(c.averaged[k].latitude, WindowLat(c.sorted, k))
                  /\ NearestToMean(c.averaged[k].longitude, WindowLng(c.sorted, k))
    /\ (Processed /\ rawData = SeedRounding) =>
          /\ Len(result.data) = 1
          /\ result.data[1].latitude = -4000000
    /\ (Processed /\ rawData = SeedEntity42) =>
          /\ Len(result.data) = 2
          /\ result.data[1].latitude = -10000000
          /\ result.data[1].timestamp = T(6)
          /\ result.data[2].latitude = -11428571
          /\ result.data[2].timestamp = T(7)

C8_Witness ==
    /\ Processed
    /\ rawData = SeedEntity42
    /\ result.data[2].latitude = -11428571

(***************************************************************************)
(* C9.  In the file written, total_animals is the number of distinct       *)
(* tagIds in data, which is the number of groups of at least 7 valid       *)
(* fixes; a group of fewer than 7 has no record in data.  Six fixes of one *)
(* entity and nine of another give 3 records and total_animals = 1.        *)
(***************************************************************************)
LargeGroups == {j \in 1..Len(result.groups) : Len(result.groups[j].animalData) >= 7}

C9_TotalAnimals ==
    file.written =>
        /\ file.metadata.total_animals
              = Cardinality({file.data[k].tagId : k \in 1..Len(file.data)})
        /\ file.metadata.total_animals = Cardinality(LargeGroups)
        /\ \A j \in 1..Len(result.groups) :
              Len(result.groups[j].animalData) < 7 =>
                  \A k \in 1..Len(file.data) :
                      PropertyKey(file.data[k].tagId) # result.groups[j].tagId
        /\ rawData = SeedMixed =>
              (Len(file.data) = 3 /\ file.metadata.total_animals = 1)

(***************************************************************************)
(* C10.  processData returns for every input whose records carry their     *)
(* fields; when no group reaches 7 valid fixes (the empty input included)  *)
(* it returns the empty sequence and the file written has total_points 0   *)
(* and empty data; total_points is always the length of data.              *)
(***************************************************************************)
C10_NeverFails ==
    /\ WellFormed(rawData) => pc # "impl_defined"
    /\ pc \in {"processed", "done"} => Processed
    /\ (Processed /\ LargeGroups = {}) => result.data = <<>>
    /\ file.written =>
          /\ file.data = result.data
          /\ file.metadata.total_points = Len(file.data)
          /\ LargeGroups = {} => file.metadata.total_points = 0

C10_Witness ==
    /\ pc = "done"
    /\ rawData = <<>>
    /\ file.written
    /\ file.data = <<>>
    /\ file.metadata.total_points = 0

(***************************************************************************)
(* C11.  processData returns the same sequence for a reordering of its     *)
(* input, provided the fixes of each group have distinct timestamps: the   *)
(* input reversed, rotated by one, or with two neighbours swapped.         *)
(***************************************************************************)
Reverse(s) == [j \in 1..Len(s) |-> s[Len(s) + 1 - j]]

Rotate(s) == IF Len(s) = 0 THEN s ELSE Tail(s) \o <<Head(s)>>

SwapAt(s, p) ==
    [j \in 1..Len(s) |-> IF j = p THEN s[p + 1] ELSE IF j = p + 1 THEN s[p] ELSE s[j]]

Reorderings(s) == {Reverse(s), Rotate(s)} \cup {SwapAt(s, p) : p \in 1..(Len(s) - 1)}

DistinctTimestamps(s) ==
    \A j, k \in 1..Len(s) : j # k => s[j].timestamp # s[k].timestamp

DistinctWithinGroups ==
    \A g \in 1..Len(result.groups) : DistinctTimestamps(result.groups[g].animalData)

RECURSIVE ConcatenateIn(_, _, _)
ConcatenateIn(groups, order, q) ==
    IF q > Len(groups) THEN <<>>
    ELSE groups[order[q]].averaged \o ConcatenateIn(groups, order, q + 1)

\* the assembled data had the groups been concatenated in the given order
AssembledIn(order) == SortFinal(ConcatenateIn(result.groups, order, 1))

GroupOrders == Permutations(1..Len(result.groups))

\* the place of the group of tagId in the order of concatenation
PlaceIn(order, tagId) ==
    CHOOSE q \in 1..Len(result.groups) : result.groups[order[q]].tagId = PropertyKey(tagId)

\* two records of different groups carry the same timestamp
CrossGroupTie ==
    \E j, k \in 1..Len(result.data) :
        /\ result.data[j].timestamp = result.data[k].timestamp
        /\ PropertyKey(result.data[j].tagId) # PropertyKey(result.data[k].tagId)

\* C12 as stated: the assembled data is the same whatever order the
\* per-group results are concatenated in, records of different entities
\* with equal timestamps included.
C12_AnyConcatenationOrder ==
    Processed => \A order \in GroupOrders : AssembledIn(order) = result.data

\* C12 amended: the assembled data is the same whatever order the per-group
\* results are concatenated in provided no two records of different groups
\* have equal timestamps; records of different groups with equal timestamps
\* come out in the order in which their groups were concatenated.
C12_OrderUpToTies ==
    Processed =>
        \A order \in GroupOrders :
            LET alt == AssembledIn(order) IN
            /\ ~CrossGroupTie => alt = result.data
            /\ NonDecreasing(alt)
            /\ Len(alt) = Len(result.data)
            /\ \A j, k \in 1..Len(alt) :
                  (j < k /\ alt[j].timestamp = alt[k].timestamp
                         /\ PropertyKey(alt[j].tagId) # PropertyKey(alt[k].tagId))
                  => PlaceIn(order, alt[j].tagId) < PlaceIn(order, alt[k].tagId)

C12_Witness ==
    /\ Processed
    /\ CrossGroupTie
    /\ \E order \in GroupOrders : AssembledIn(order) # result.data
    /\ \E g, h \in 1..Len(result.groups) :
          g # h /\ Len(result.groups[g].averaged) > 0
                /\ Len(result.groups[h].averaged) > 0

(***************************************************************************)
(* C13.  The records of one group in the data returned are those that      *)
(* processData returns for the fixes of that group alone, and those it     *)
(* returns when the fixes of the other groups are changed.                 *)
(***************************************************************************)
RecordsOf(data, key) ==
    LET OfKey(r) == PropertyKey(r.tagId) = key IN SelectSeq(data, OfKey)

\* a fix a day later and a micro-degree further south
Changed(point) ==
    [point EXCEPT !.timestamp = IF IsNumber(@) THEN @ + SecondsPerDay ELSE @,
                  !.latitude  = IF IsNumber(@) THEN @ - FixedUnit ELSE @]

OthersRemoved(raw, key) == RecordsOf(raw, key)

OthersChanged(raw, key) ==
    [j \in 1..Len(raw) |->
        IF PropertyKey(raw[j].tagId) = key THEN raw[j] ELSE Changed(raw[j])]

InGroup(g, fix) ==
    \E j \in 1..Len(result.groups[g].animalData) : result.groups[g].animalData[j] = fix

C14_ExactGrouping ==
    Processed =>
        /\ \A j, k \in 1..Len(result.filteredData) :
              LET a == result.filteredData[j]
                  b == result.filteredData[k]
              IN  (\E g \in 1..Len(result.groups) : InGroup(g, a) /\ InGroup(g, b))
                      <=> a.tagId = b.tagId
        /\ \A j \in 1..Len(result.filteredData) :
              Cardinality({g \in 1..Len(result.groups) :
                              InGroup(g, result.filteredData[j])}) = 1
        /\ \A g \in 1..Len(result.groups) :
              \A k \in 1..Len(result.groups[g].averaged) :
                  \A j \in k..(k + 6) :
                      result.groups[g].sorted[j].tagId
                          = result.groups[g].averaged[k].tagId

(***************************************************************************)
(* C15.  In every run of main a result appears only in a step taken after  *)
(* the fetch has resolved, on the data fetched; the file is written only   *)
(* in a step taken after processData has returned, with the data it        *)
(* returned; a run whose fetch or processing failed has exit code 1, has   *)
(* written no file and takes no further step: main leaves its start, but   *)
(* for a caller's direct call, with the data fetched or with exit code 1.  *)
(***************************************************************************)
C15_Sequencing ==
    [][ /\ result' # result =>
              (pc = "fetched" /\ rawData = upstream /\ rawData' = rawData)
        /\ file' # file =>
              (pc = "processed" /\ Processed /\ result' = result
               /\ file'.written /\ file'.data = result.data)
        /\ (pc \in {"start", "fetched"} /\ pc' = "exit1") =>
              (result' = NoResult /\ file' = NoFile)
        /\ (pc = "fetched" /\ result' = result) => pc' = "exit1"
        /\ (pc = "start" /\ pc' \notin {"start", "fetched", "called"})
              => pc' = "exit1"
        /\ pc # "exit1" ]_vars

(***************************************************************************)
(* C16.  dateRange.start of a record is the UTC calendar date of the first *)
(* fix of its window (sorted index i - 6) and dateRange.end that of the    *)
(* last (index i), so that start <= end.  The day a date denotes is        *)
(* counted here from 1970-01-01 by whole years and months.                 *)
(***************************************************************************)
IsLeap(y) == y % 4 = 0 /\ (y % 100 # 0 \/ y % 400 = 0)

DaysInMonth(y, m) ==
    IF m = 2 THEN (IF IsLeap(y) THEN 29 ELSE 28)
    ELSE IF m \in {4, 6, 9, 11} THEN 30 ELSE 31

\* the days of the years 1970 .. y - 1: 365 each and one more for each leap year
DaysBeforeYear(y) ==
    365 * (y - 1970) + Cardinality({x \in 1970..(y - 1) : IsLeap(x)})

RECURSIVE DaysBeforeMonth(_, _)
DaysBeforeMonth(y, m) ==
    IF m <= 1 THEN 0 ELSE DaysBeforeMonth(y, m - 1) + DaysInMonth(y, m - 1)

\* date (YYYYMMDD) is a calendar date and ts an epoch second of that UTC day
IsUTCDateOf(date, ts) ==
    LET y == date \div 10000
        m == (date \div 100) % 100
        d == date % 100
        day == DaysBeforeYear(y) + DaysBeforeMonth(y, m) + d - 1
    IN  /\ y >= 1970 /\ m \in 1..12 /\ d \in 1..DaysInMonth(y, m)
        /\ day * SecondsPerDay <= ts
        /\ ts < (day + 1) * SecondsPerDay

C16_DateRange ==
    \A c \in AllCalls :
        c.status = "ok" =>
            \A k \in 1..Len(c.averaged) :
                (IsNumber(c.sorted[k].timestamp) /\ IsNumber(c.sorted[k + 6].timestamp)) =>
                    /\ IsUTCDateOf(c.averaged[k].dateRange.start, c.sorted[k].timestamp)
                    /\ IsUTCDateOf(c.averaged[k].dateRange.end, c.sorted[k + 6].timestamp)
                    /\ c.averaged[k].dateRange.start <= c.averaged[k].dateRange.end

C16_Witness ==
    \E c \in AllCalls :
        /\ c.status = "ok"
        /\ Len(c.averaged) >= 2
        /\ c.averaged[1].dateRange.start = 20231231
        /\ c.averaged[1].dateRange.end = 20240106
        /\ c.sorted[1].timestamp = T(-1) + 82800
        /\ c.averaged[2].dateRange.start = 20240101

(***************************************************************************)
(* C17.  calculateRollingAverages leaves the sequence passed to it as it   *)
(* was: after the call the argument holds the same elements in the same    *)
(* order.  (sorted is the argument array after the call: animalData.sort   *)
(* sorts in place and sortedData is the same array.)                       *)
(***************************************************************************)
C17_ArgumentUnchanged ==
    \A c \in AllCalls : c.status = "ok" => c.sorted = c.animalData

(***************************************************************************)
(* C18.  The reduction reported is (1 - totalAveragedPoints /               *)
(* totalOriginalPoints) * 100 to one decimal (a nearest tenth of a         *)
(* percent), totalOriginalPoints being the number of fixes of the input    *)
(* with latitude < 0 and totalAveragedPoints the number of records         *)
(* returned; for 100 and 40 it is 60.0 %.  With no valid fix the quotient  *)
(* is 0 / 0 and the value reported is NaN.                                 *)
(***************************************************************************)
ValidFixes == Southern(rawData, Len(rawData))

C18_Reduction ==
    Processed =>
        /\ result.totalOriginalPoints = ValidFixes
        /\ result.totalAveragedPoints = Len(result.data)
        /\ ValidFixes > 0 =>
              /\ IsNumber(result.reduction)
              /\ 2 * Abs(result.reduction * ValidFixes
                         - (ValidFixes - Len(result.data)) * 1000) <= ValidFixes
        /\ ValidFixes = 0 => result.reduction = NaN
        /\ (ValidFixes = 100 /\ Len(result.data) = 40) => result.reduction = 600

C18_Witness ==
    /\ Processed
    /\ ValidFixes = 100
    /\ Len(rawData) > 100
    /\ Len(result.data) = 40
    /\ result.reduction = 600

(***************************************************************************)
(* C19.  The sort of a timeline is stable: the fixes of each timestamp     *)
(* stand in the sorted timeline in the order they had in the input, and    *)
(* the records anchored at tied fixes follow in that order, each with the  *)
(* tagId of its own fix.                                                   *)
(***************************************************************************)
AtTimestamp(s, ts) ==
    LET At(fix) == fix.timestamp = ts IN SelectSeq(s, At)

C19_StableSort ==
    \A c \in AllCalls :
        (c.status = "ok" /\ ComparatorConsistent(c.animalData)) =>
            /\ Len(c.sorted) = Len(c.animalData)
            /\ NonDecreasing(c.sorted)
            /\ \A j \in 1..Len(c.animalData) :
                  LET ts == c.animalData[j].timestamp
                  IN  AtTimestamp(c.sorted, ts) = AtTimestamp(c.animalData, ts)
            /\ \A k \in 1..Len(c.averaged) :
                  LET ts   == c.averaged[k].timestamp
                      tied == AtTimestamp(c.animalData, ts)
                      \* the tied fixes behind the anchor in the sorted timeline
                      behind == Cardinality({j \in (k + 7)..Len(c.sorted) :
                                                c.sorted[j].timestamp = ts})
                  IN  c.averaged[k].tagId = tied[Len(tied) - behind].tagId

C19_Witness ==
    \E c \in AllCalls :
        /\ c.status = "ok"
        /\ \E k \in 1..(Len(c.averaged) - 1) :
              /\ c.averaged[k].timestamp = c.averaged[k + 1].timestamp
              /\ c.averaged[k].tagId # c.averaged[k + 1].tagId
              /\ AtTimestamp(c.animalData, c.averaged[k].timestamp)[1].tagId
                    = c.averaged[k].tagId
        /\ c.sorted # c.animalData

Colon == 58
\* toString('ascii') clears the highest bit of every byte
HighBit == 128

\* "jono"
Jono == <<106, 111, 110, 111>>
\* "password"
Password == <<112, 97, 115, 115, 119, 111, 114, 100>>
\* "admin", "wrong", "x"
Admin == <<97, 100, 109, 105, 110>>
Wrong == <<119, 114, 111, 110, 103>>
LetterX == <<120>>

Plain(text) == [text |-> text, bytes |-> <<>>]
Base64(bytes) == [text |-> "base64", bytes |-> bytes]

NoHeader == [present |-> FALSE, words |-> <<>>]
Header(words) == [present |-> TRUE, words |-> words]

\* !auth: the header is absent or the empty string
IsEmptyHeader(auth) == ~auth.present \/ auth.words = <<Plain("")>>

\* auth.startsWith('Basic ')
StartsWithBasic(auth) == Len(auth.words) >= 2 /\ auth.words[1] = Plain("Basic")

\* Buffer.from(base64Credentials, 'base64'); the empty word holds no byte
BufferFrom(word) == word.bytes

\* buffer.toString('ascii')
ToStringAscii(bytes) == [i \in 1..Len(bytes) |-> bytes[i] % HighBit]

\* text.split(separator)
RECURSIVE Split(_, _)
Split(text, separator) ==
    IF \E i \in 1..Len(text) : text[i] = separator
    THEN LET i == CHOOSE k \in 1..Len(text) :
                      /\ text[k] = separator
                      /\ \A m \in 1..(k - 1) : text[m] # separator
         IN  <<SubSeq(text, 1, i - 1)>>
                 \o Split(SubSeq(text, i + 1, Len(text)), separator)
    ELSE <<text>>

\* const [username, password] = fields: an element past the end is undefined
Element(fields, k) ==
    IF k <= Len(fields) THEN [defined |-> TRUE, text |-> fields[k]]
    ELSE [defined |-> FALSE, text |-> <<>>]

\* auth.split(' ')[1], decoded and split at ':'
Credentials(auth) ==
    LET base64Credentials == auth.words[2]
        credentials == ToStringAscii(BufferFrom(base64Credentials))
        fields == Split(credentials, Colon)
    IN  [username |-> Element(fields, 1), password |-> Element(fields, 2)]

\* the password is not compared
ValidCredentials_UsernameOnly(username, password) ==
    username.defined /\ username.text = Jono

\* username === 'jono' && password === 'password'
ValidCredentials(username, password) ==
    /\ username.defined /\ username.text = Jono
    /\ password.defined /\ password.text = Password

Response(status, kind, records) ==
    [status |-> status, kind |-> kind, records |-> records]

\* what a handler did for one request
Exchange(responses, storageCalls, fileReads) ==
    [responses |-> responses, storageCalls |-> storageCalls,
     fileReads |-> fileReads]

\* authenticate(req, res, next): the response it sends, none when it calls next()
authenticate(auth) ==
    IF IsEmptyHeader(auth) \/ ~StartsWithBasic(auth)
    THEN <<Response(401, "error", <<>>)>>
    ELSE LET c == Credentials(auth)
         IN  IF ValidCredentials(c.username, c.password) THEN <<>>
             ELSE <<Response(401, "error", <<>>)>>

(* app.get('/api/awt-data', authenticate, handler) behind the cors         *)
(* middleware, which answers a preflight itself; a method without a route  *)
(* gets the 404 of express.  outcome is what the storage service does.     *)
awtData(server, req, outcome) ==
    IF req.method = "OPTIONS"
    THEN Exchange(<<Response(204, "end", <<>>)>>, <<>>, 0)
    ELSE IF req.method # "GET"
    THEN Exchange(<<Response(404, "error", <<>>)>>, <<>>, 0)
    ELSE IF authenticate(req.authorization) # <<>>
    THEN Exchange(authenticate(req.authorization), <<>>, 0)
    ELSE IF ~server.bucketName
    THEN Exchange(<<Response(500, "error", <<>>)>>, <<>>, 0)
    ELSE IF outcome \in {"download404", "downloadError", "parseError"}
    THEN Exchange(<<Response(500, "error", <<>>)>>, <<"download">>, 0)
    ELSE Exchange(<<Response(200, "records", server.cumulative)>>,
                  <<"download">>, 0)

(***************************************************************************)
(* The handler of /api/historical-data-by-year (lines 27-140).             *)
(***************************************************************************)
Decimal == <<"0", "1", "2", "3", "4", "5", "6", "7", "8", "9">>

IsDigit(c) == \E d \in 1..Radix : Decimal[d] = c

DigitValue(c) == (CHOOSE d \in 1..Radix : Decimal[d] = c) - 1

\* the number of leading decimal digits of text
RECURSIVE DigitPrefix(_)
DigitPrefix(text) ==
    IF text # <<>> /\ IsDigit(Head(text)) THEN 1 + DigitPrefix(Tail(text))
    ELSE 0

RECURSIVE DecimalValue(_)
DecimalValue(digits) ==
    IF digits = <<>> THEN 0
    ELSE DecimalValue(SubSeq(digits, 1, Len(digits) - 1)) * Radix
             + DigitValue(digits[Len(digits)])

(* parseInt(year) of a text without leading blanks, sign or 0x prefix: the *)
(* value of its longest prefix of decimal digits, NaN when that is empty   *)
ParseInt(text) ==
    IF DigitPrefix(text) = 0 THEN NaN
    ELSE DecimalValue(SubSeq(text, 1, DigitPrefix(text)))

\* the year parameter is not validated
YearRejected_Never(year) == FALSE

\* !year || isNaN(parseInt(year))
YearRejected(year) ==
    ~year.present \/ year.text = <<>> \/ ParseInt(year.text) = NaN

\* the day number of January 1 of year y (ECMAScript DayFromYear)
DayFromYear(y) ==
    365 * (y - 1970) + ((y - 1969) \div 4) - ((y - 1901) \div 100)
        + ((y - 1601) \div 400)

\* the Date constructor takes a year 0..99 for a year of the 20th century
FullYear(y) == IF 0 <= y /\ y <= 99 THEN 1900 + y ELSE y

(* new Date(y, 0, 1).getTime() / 1000: midnight of January 1 in the local  *)
(* time of the server, timezone seconds east of UTC                        *)
YearStart(y, timezone) == DayFromYear(FullYear(y)) * SecondsPerDay - timezone

\* the upper bound included
InYear_Closed(record, yearStart, yearEnd) ==
    /\ IsNumber(record.timestamp)
    /\ record.timestamp >= yearStart
    /\ record.timestamp <= yearEnd

\* record.timestamp >= yearStart && record.timestamp < yearEnd
InYear(record, yearStart, yearEnd) ==
    /\ IsNumber(record.timestamp)
    /\ record.timestamp >= yearStart
    /\ record.timestamp < yearEnd

\* allHistoricalData.filter(...) for the requested year
FilterYear(allHistoricalData, requestedYear, timezone) ==
    LET yearStart == YearStart(requestedYear, timezone)
        yearEnd   == YearStart(requestedYear + 1, timezone)
    IN  SelectSeq(allHistoricalData,
                  LAMBDA record : InYear(record, yearStart, yearEnd))

\* every failure answered with 500
OnError_Always500(code, storageCalls) ==
    Exchange(<<Response(500, "error", <<>>)>>, storageCalls, 0)

\* the catch block: error.code === 404 gives the empty array
OnError(code, storageCalls) ==
    IF code = 404
    THEN Exchange(<<Response(200, "records", <<>>)>>, storageCalls, 0)
    ELSE Exchange(<<Response(500, "error", <<>>)>>, storageCalls, 0)

(* outcome is what the storage service does with the request: "ok", a      *)
(* failure of getMetadata or of download with code 404 or with another     *)
(* code, content that does not parse, or content that is not an array.     *)
(* The error of a failed JSON.parse or of a missing method has no code.    *)
historicalDataByYear(server, req, outcome) ==
    IF req.method = "OPTIONS"
    THEN Exchange(<<Response(200, "end", <<>>)>>, <<>>, 0)
    ELSE IF req.method # "GET"
    THEN Exchange(<<Response(405, "error", <<>>)>>, <<>>, 0)
    ELSE IF IsEmptyHeader(req.authorization) \/ ~StartsWithBasic(req.authorization)
    THEN Exchange(<<Response(401, "error", <<>>)>>, <<>>, 0)
    ELSE IF ~ValidCredentials(Credentials(req.authorization).username,
                              Credentials(req.authorization).password)
    THEN Exchange(<<Response(401, "error", <<>>)>>, <<>>, 0)
    ELSE IF YearRejected(req.year)
    THEN Exchange(<<Response(400, "error", <<>>)>>, <<>>, 0)
    ELSE IF ~server.bucketName
    THEN Exchange(<<Response(500, "error", <<>>)>>, <<>>, 0)
    ELSE IF ~server.storage
    THEN OnError(Undefined, <<>>)
    ELSE IF outcome = "metadata404"
    THEN OnError(404, <<"getMetadata">>)
    ELSE IF outcome = "metadataError"
    THEN OnError(500, <<"getMetadata">>)
    ELSE IF outcome = "download404"
    THEN OnError(404, <<"getMetadata", "download">>)
    ELSE IF outcome = "downloadError"
    THEN OnError(500, <<"getMetadata", "download">>)
    ELSE IF outcome \in {"parseError", "notArray"}
    THEN OnError(Undefined, <<"getMetadata", "download">>)
    ELSE Exchange(<<Response(200, "records",
                             FilterYear(server.historical,
                                        ParseInt(req.year.text),
                                        server.timezone))>>,
                  <<"getMetadata", "download">>, 0)

(***************************************************************************)
(* The public handler of the averaged data (lines 146-208).  disk is the   *)
(* state of awt_averaged_data.json, which saveAveragedData alone writes;   *)
(* outcome is what reading it does: "ok", a failed read, or content that   *)
(* does not parse (a document being rewritten).                             *)
(***************************************************************************)
\* the whole document served
DataToServe_Document(averagedData) == <<averagedData>>

(* averagedData.data || averagedData: the document saveAveragedData wrote  *)
(* has a data array, and an array, even the empty one, is truthy           *)
DataToServe(averagedData) == averagedData.data

publicAveragedData(disk, req, outcome) ==
    IF req.method = "OPTIONS"
    THEN Exchange(<<Response(200, "end", <<>>)>>, <<>>, 0)
    ELSE IF req.method # "GET"
    THEN Exchange(<<Response(405, "error", <<>>)>>, <<>>, 0)
    ELSE IF ~disk.written
    THEN Exchange(<<Response(404, "error", <<>>)>>, <<>>, 0)
    ELSE IF outcome \in {"readError", "parseError"}
    THEN Exchange(<<Response(500, "error", <<>>)>>, <<>>, 1)
    ELSE Exchange(<<Response(200, "records", DataToServe(disk))>>, <<>>, 1)

(***************************************************************************)
(* The servers at work: a configuration, the stored files, and one request *)
(* after the other.                                                        *)
(***************************************************************************)
\* seconds east of UTC of the server's local time: UTC, and Botswana's UTC+2
Timezones == {0, 7200}

(* historical_data.json: fixes around the starts of 2024 and of 2025 in    *)
(* both time zones, one of 2023, one of 1970-01-01T00:00:00Z and one       *)
(* without a timestamp, not in chronological order                         *)
HistoricalSeed ==
    <<Fix(TagA, T(100), Deg(-19), Deg(23)),
      Fix(TagB, T(0), Deg(-19), Deg(24)),
      Fix(TagA, T(366), Deg(-18), Deg(23)),
      Fix(TagB, T(0) - 1, Deg(-19), Deg(24)),
      Fix(TagA, Undefined, Deg(-18), Deg(23)),
      Fix(TagB, T(366) - 7200, Deg(-19), Deg(24)),
      Fix(TagA, 0, Deg(-18), Deg(23)),
      Fix(TagB, T(0) - 7200, Deg(-19), Deg(24)),
      Fix(TagA, T(-365), Deg(-18), Deg(23)),
      Fix(TagB, T(0) - 7201, Deg(-19), Deg(24)),
      Fix(TagA, T(366) - 1, Deg(-18), Deg(23))>>

HistoricalFiles == {<<>>, HistoricalSeed}

Methods == {"GET", "OPTIONS", "POST"}

\* jono:password, and the same bytes with their highest bits set
JonoPassword == Jono \o <<Colon>> \o Password
JonoPasswordHigh == [i \in 1..Len(JonoPassword) |-> JonoPassword[i] + HighBit]

AuthorizationHeaders ==
    {NoHeader,
     Header(<<Plain("")>>),
     Header(<<Plain("Basic")>>),
     Header(<<Plain("Basic"), Plain("")>>),
     Header(<<Plain("Basic"), Base64(JonoPassword)>>),
     Header(<<Plain("basic"), Base64(JonoPassword)>>),
     Header(<<Plain("Bearer"), Base64(JonoPassword)>>),
     Header(<<Plain("Basic"), Plain(""), Base64(JonoPassword)>>),
     Header(<<Plain("Basic"), Base64(JonoPassword), Plain("x")>>),
     Header(<<Plain("Basic"), Base64(JonoPasswordHigh)>>),
     Header(<<Plain("Basic"), Base64(Jono)>>),
     Header(<<Plain("Basic"), Base64(Jono \o <<Colon>>)>>),
     Header(<<Plain("Basic"), Base64(<<Colon>> \o Password)>>),
     Header(<<Plain("Basic"), Base64(Jono \o <<Colon>> \o Wrong)>>),
     Header(<<Plain("Basic"), Base64(Admin \o <<Colon>> \o Password)>>),
     Header(<<Plain("Basic"), Base64(Password \o <<Colon>> \o Jono)>>),
     Header(<<Plain("Basic"), Base64(JonoPassword \o LetterX)>>),
     Header(<<Plain("Basic"), Base64(JonoPassword \o <<Colon>> \o LetterX)>>)}

NoYear == [present |-> FALSE, text |-> <<>>]
Year(text) == [present |-> TRUE, text |-> text]

YearParameters ==
    {NoYear,
     Year(<<>>),
     Year(<<"a", "b", "c">>),
     Year(<<"2", "0", "2", "3">>),
     Year(<<"2", "0", "2", "4">>),
     Year(<<"2", "0", "2", "5">>),
     Year(<<"2", "0", "2", "4", "a", "b", "c">>),
     Year(<<"1", "9", "7", "0">>),
     Year(<<"7", "0">>),
     Year(<<"6", "9">>)}

AwtOutcomes == {"ok", "download404", "downloadError", "parseError"}

YearOutcomes ==
    {"ok", "metadata404", "metadataError", "download404", "downloadError",
     "parseError", "notArray"}

ReadOutcomes == {"ok", "readError", "parseError"}

Request(method, authorization, year) ==
    [method |-> method, authorization |-> authorization, year |-> year]

InitHttp ==
    /\ upstream = <<>>
    /\ ingested = 0
    /\ pc = "listening"
    /\ rawData = <<>>
    /\ result = NoResult
    /\ directCall = NoCall
    /\ calls = <<>>
    /\ \E bucketName, storage \in BOOLEAN, timezone \in Timezones,
          historical \in HistoricalFiles :
          /\ http = [NoHttp EXCEPT !.bucketName = bucketName,
                                   !.storage = storage,
                                   !.timezone = timezone,
                                   !.historical = historical,
                                   !.cumulative =
                                       IF historical = <<>> THEN <<>>
                                       ELSE SeedEntity42]
          /\ file = IF historical = <<>> THEN NoFile
                    ELSE saveAveragedData(processData(SeedEntity42).data)
    /\ fetch = NoFetch

\* the exchange x of a request to endpoint recorded
Served(endpoint, req, outcome, x) ==
    /\ pc = "listening"
    /\ pc' = "responded"
    /\ http' = [http EXCEPT !.endpoint = endpoint,
                            !.request = req,
                            !.outcome = outcome,
                            !.storageCalls = x.storageCalls,
                            !.fileReads = x.fileReads,
                            !.responses = x.responses]
    /\ UNCHANGED <<upstream, ingested, rawData, result, file, directCall,
                   calls, fetch>>

ServeAwtData(req, outcome) ==
    Served("awt-data", req, outcome, awtData(http, req, outcome))

ServeByYear(req, outcome) ==
    Served("by-year", req, outcome, historicalDataByYear(http, req, outcome))

ServePublic(req, outcome) ==
    Served("public", req, outcome, publicAveragedData(file, req, outcome))

\* the exchange is over; the server waits for the next request
Listen ==
    /\ pc = "responded"
    /\ pc' = "listening"
    /\ http' = [http EXCEPT !.endpoint = "none",
                            !.request = NoRequest,
                            !.outcome = "none",
                            !.storageCalls = <<>>,
                            !.fileReads = 0,
                            !.responses = <<>>]
    /\ UNCHANGED <<upstream, ingested, rawData, result, file, directCall,
                   calls, fetch>>

NextHttp ==
    \/ \E method \in Methods, authorization \in AuthorizationHeaders,
          outcome \in AwtOutcomes :
          ServeAwtData(Request(method, authorization, NoYear), outcome)
    \/ \E method \in Methods, authorization \in AuthorizationHeaders,
          year \in YearParameters, outcome \in YearOutcomes :
          ServeByYear(Request(method, authorization, year), outcome)
    \/ \E method \in Methods, authorization \in {NoHeader} \cup
              {Header(<<Plain("Basic"), Base64(JonoPassword)>>)},
          outcome \in ReadOutcomes :
          ServePublic(Request(method, authorization, NoYear), outcome)
    \/ Listen

SpecHttp == InitHttp /\ [][NextHttp]_vars

(***************************************************************************)
(* Claims about the HTTP handlers.                                         *)
(***************************************************************************)
\* a request to one of the endpoints that ask for credentials was answered
AnsweredAuthenticated ==
    pc = "responded" /\ http.endpoint \in {"awt-data", "by-year"}

\* some response carries records
RecordsReturned ==
    \E k \in 1..Len(http.responses) : http.responses[k].kind = "records"

(* the header starts with "Basic " and the word after the first space      *)
(* decodes (base64, then 7-bit ASCII) to text that reads jono:password up  *)
(* to its end or to a further colon                                        *)
PresentsJonoPassword(auth) ==
    /\ auth.present
    /\ Len(auth.words) >= 2
    /\ auth.words[1].text = "Basic"
    /\ LET text == [i \in 1..Len(auth.words[2].bytes) |->
                       auth.words[2].bytes[i] % HighBit]
       IN  /\ Len(text) >= Len(JonoPassword)
           /\ SubSeq(text, 1, Len(JonoPassword)) = JonoPassword
           /\ Len(text) > Len(JonoPassword) => text[Len(JonoPassword) + 1] = Colon

(* C21: on /api/awt-data and on the year endpoint the storage is read, and *)
(* records are returned, only for a request whose Authorization header     *)
(* starts with "Basic " and decodes to the username jono and the password  *)
(* password; a GET with a missing, a non-Basic or a wrong credential gets  *)
(* 401, no record, and no storage call.                                    *)
C21_CredentialsRequired ==
    AnsweredAuthenticated =>
        /\ (http.storageCalls # <<>> \/ RecordsReturned)
               => PresentsJonoPassword(http.request.authorization)
        /\ (http.request.method = "GET"
                /\ ~PresentsJonoPassword(http.request.authorization))
               => /\ http.responses = <<Response(401, "error", <<>>)>>
                  /\ http.storageCalls = <<>>

\* the year endpoint has returned stored records to jono:password
C21_Witness ==
    /\ AnsweredAuthenticated
    /\ http.endpoint = "by-year"
    /\ http.request.authorization = Header(<<Plain("Basic"), Base64(JonoPassword)>>)
    /\ http.storageCalls = <<"getMetadata", "download">>
    /\ RecordsReturned
    /\ http.responses[1].records # <<>>

\* a request to the year endpoint was answered
AnsweredByYear == pc = "responded" /\ http.endpoint = "by-year"

\* the year parameter is present and its text starts with a decimal digit
NumericYear(year) ==
    /\ year.present
    /\ year.text # <<>>
    /\ year.text[1] \in {"0", "1", "2", "3", "4", "5", "6", "7", "8", "9"}

\* the one response has this status and no records
OnlyStatus(status) ==
    /\ Len(http.responses) = 1
    /\ http.responses[1].status = status
    /\ http.responses[1].kind # "records"

ServedYear ==
    /\ AnsweredByYear
    /\ http.responses = <<Response(200, "records", http.responses[1].records)>>
    /\ http.outcome = "ok"

\* the years the requests ask for
YearsAsked ==
    {ParseInt(year.text) : year \in {y \in YearParameters : NumericYear(y)}}

\* the records the endpoint returns for year y from the stored file
ResultFor(y) == FilterYear(http.historical, y, http.timezone)

\* the records of a sequence, as a set
Range(s) == {s[k] : k \in 1..Len(s)}

(* midnight of January 1 of calendar year y, 1969 or later, in the local   *)
(* time of the server                                                      *)
CalendarStart(y) == DaysBeforeYear(y) * SecondsPerDay - http.timezone

\* s is the subsequence of the stored records with timestamps in [from, to)
IsSelection(s, from, to) ==
    LET keep == {k \in 1..Len(http.historical) :
                    /\ IsNumber(http.historical[k].timestamp)
                    /\ from <= http.historical[k].timestamp
                    /\ http.historical[k].timestamp < to}
    IN  /\ Len(s) = Cardinality(keep)
        /\ \A k \in 1..Len(s) :
               \E j \in keep :
                   /\ s[k] = http.historical[j]
                   /\ Cardinality({i \in keep : i <= j}) = k

\* the properties of the result for year y the claim states
YearPartition(y, years) ==
    /\ \A other \in years \ {y} : Range(ResultFor(y)) \cap Range(ResultFor(other)) = {}
    /\ \A k \in 1..Len(http.historical) :
           http.historical[k].timestamp = YearStart(y + 1, http.timezone)
               => /\ http.historical[k] \notin Range(ResultFor(y))
                  /\ \A other \in years \ {y + 1} :
                         http.historical[k] \notin Range(ResultFor(other))

(* C23 as stated: an authenticated GET with a valid year Y returns all and *)
(* only the stored records with start(Y) <= timestamp < start(Y+1), in     *)
(* stored order; the results for two different years are disjoint and a    *)
(* record exactly at start(Y+1) belongs to year Y+1 only.                  *)
C23_YearsDisjoint ==
    ServedYear =>
        LET y == ParseInt(http.request.year.text)
        IN  /\ IsSelection(http.responses[1].records,
                           YearStart(y, http.timezone),
                           YearStart(y + 1, http.timezone))
            /\ YearPartition(y, YearsAsked)

(* C23 amended: for a year Y of 100 or more the records returned are all   *)
(* and only the stored records from local midnight of January 1 of Y up to *)
(* but not including that of Y+1, in stored order; the results for two     *)
(* different such years are disjoint and a record exactly at start(Y+1)    *)
(* belongs to year Y+1 only.  A year 0..98 is served as 1900 + Y.          *)
C23_CalendarYears ==
    ServedYear =>
        LET y == ParseInt(http.request.year.text)
        IN  IF y >= 100
            THEN /\ IsSelection(http.responses[1].records,
                                CalendarStart(y), CalendarStart(y + 1))
                 /\ YearPartition(y, {x \in YearsAsked : x >= 100})
            ELSE http.responses[1].records = ResultFor(1900 + y)

(* 2024 was served in UTC+2: the fix at local midnight of January 1 is in, *)
(* the one a second earlier and the one at local midnight of 2025 are not  *)
C23_Witness ==
    /\ ServedYear
    /\ http.timezone = 7200
    /\ ParseInt(http.request.year.text) = 2024
    /\ \E k \in 1..Len(http.responses[1].records) :
           http.responses[1].records[k].timestamp = T(0) - 7200
    /\ \E k \in 1..Len(http.historical) :
           /\ http.historical[k].timestamp = T(366) - 7200
           /\ http.historical[k] \notin Range(http.responses[1].records)
    /\ \E k \in 1..Len(http.historical) :
           /\ http.historical[k].timestamp = T(0) - 7201
           /\ http.historical[k] \notin Range(http.responses[1].records)

\* the year endpoint has answered a request that got as far as the storage
ReachedStorage ==
    /\ AnsweredByYear
    /\ http.request.method = "GET"
    /\ PresentsJonoPassword(http.request.authorization)
    /\ NumericYear(http.request.year)
    /\ http.bucketName

(* C24: in the year handler a storage failure with code 404 is answered    *)
(* 200 with the empty array; any other failure of the metadata fetch, the  *)
(* download or JSON parsing is answered 500 with an error body; no failure *)
(* leaves the request without a response.                                  *)
C24_FailureResponses ==
    ReachedStorage =>
        /\ Len(http.responses) = 1
        /\ (http.storage /\ http.outcome \in {"metadata404", "download404"})
               => http.responses = <<Response(200, "records", <<>>)>>
        /\ (~http.storage
                \/ http.outcome \in {"metadataError", "downloadError",
                                     "parseError", "notArray"})
               => /\ http.responses[1].status = 500
                  /\ http.responses[1].kind = "error"

\* the download of a file that holds records failed with 404: 200 and []
C24_Witness ==
    /\ ReachedStorage
    /\ http.storage
    /\ http.outcome = "download404"
    /\ http.historical # <<>>
    /\ http.storageCalls = <<"getMetadata", "download">>
    /\ http.responses = <<Response(200, "records", <<>>)>>

\* a request to the public endpoint was answered
AnsweredPublic == pc = "responded" /\ http.endpoint = "public"

(* C26: the public handler of the averaged data asks for no credentials    *)
(* and never reads the raw dataset: a GET gets 404 when the averaged file  *)
(* does not exist, otherwise 200 with the data array of the file alone,    *)
(* without its metadata, and 500 when reading or parsing fails; a method   *)
(* other than GET and OPTIONS gets 405.                                    *)
C26_PublicAveraged ==
    AnsweredPublic =>
        LET req == http.request
        IN  /\ http.storageCalls = <<>>
            /\ Len(http.responses) = 1
            /\ http.responses[1].status # 401
            /\ req.method \notin {"GET", "OPTIONS"} => OnlyStatus(405)
            /\ (req.method = "GET" /\ ~file.written)
                   => OnlyStatus(404) /\ http.fileReads = 0
            /\ (req.method = "GET" /\ file.written /\ http.outcome = "ok")
                   => http.responses = <<Response(200, "records", file.data)>>
            /\ (req.method = "GET" /\ file.written /\ http.outcome # "ok")
                   => OnlyStatus(500)

\* a GET without Authorization header was served the averaged records
C26_Witness ==
    /\ AnsweredPublic
    /\ http.request = Request("GET", NoHeader, NoYear)
    /\ file.written
    /\ file.metadata.total_points > 0
    /\ http.responses = <<Response(200, "records", file.data)>>
    /\ http.fileReads = 1

(***************************************************************************)
(* fetchRawData (lines 34-69): https.get, the response callback with its   *)
(* 'data' and 'end' listeners, and the 'error' listener of the request.    *)
(* A body is the sequence of the chunks it arrives in: a JSON array is an  *)
(* opening bracket, its records and a closing bracket, and any proper      *)
(* prefix of it is not JSON.                                               *)
(***************************************************************************)
Chunk(kind, record) == [kind |-> kind, record |-> record]

\* JSON.stringify(dataset), in chunks
JsonBody(dataset) ==
    <<Chunk("[", Fix(0, 0, 0, 0))>>
        \o [k \in 1..Len(dataset) |-> Chunk("record", dataset[k])]
        \o <<Chunk("]", Fix(0, 0, 0, 0))>>

\* the body null, and a page of text
NullBody == <<Chunk("null", Fix(0, 0, 0, 0))>>
TextBody == <<Chunk("text", Fix(0, 0, 0, 0)), Chunk("text", Fix(0, 0, 0, 0))>>

\* JSON.parse(data) followed by jsonData.length, which null does not have
JsonParse(data) ==
    IF /\ Len(data) >= 2
       /\ data[1].kind = "["
       /\ data[Len(data)].kind = "]"
       /\ \A k \in 2..(Len(data) - 1) : data[k].kind = "record"
    THEN [thrown |-> FALSE,
          value  |-> [k \in 1..(Len(data) - 2) |-> data[k + 1].record]]
    ELSE [thrown |-> TRUE, value |-> <<>>]

\* resolve(value): no effect on a promise that has settled
Resolve(f, value) ==
    IF f.promise # "pending" THEN f
    ELSE [f EXCEPT !.promise = "resolved", !.value = value,
                   !.settlements = f.settlements + 1]

\* reject(new Error(...)): no effect on a promise that has settled
Reject(f, error) ==
    IF f.promise # "pending" THEN f
    ELSE [f EXCEPT !.promise = "rejected", !.error = error,
                   !.settlements = f.settlements + 1]

\* the 'end' listener (lines 52-64)
OnEnd(f) ==
    IF f.statusCode = 200
    THEN IF JsonParse(f.data).thrown
         THEN Reject(f, "Failed to parse JSON response")
         ELSE Resolve(f, JsonParse(f.data).value)
    ELSE Reject(f, "API request failed")

StatusCodes == {200, 401, 404, 500}

\* the bodies the API may answer with
Bodies == {JsonBody(upstream), NullBody, TextBody}

InitFetch ==
    /\ upstream \in SeedDatasets
    /\ ingested = 0
    /\ pc = "start"
    /\ rawData = <<>>
    /\ result = NoResult
    /\ file = NoFile
    /\ directCall = NoCall
    /\ calls = <<>>
    /\ http = NoHttp
    /\ fetch = NoFetch

FetchStep(f) ==
    /\ fetch' = f
    /\ UNCHANGED <<upstream, ingested, pc, rawData, result, file, directCall,
                   calls, http>>

\* https.get(RAW_DATA_URL, options, callback)
Get ==
    /\ fetch.phase = "idle"
    /\ FetchStep([fetch EXCEPT !.phase = "requested"])

\* the request fails before a response: 'error' on the request
RequestError ==
    /\ fetch.phase = "requested"
    /\ FetchStep(Reject([fetch EXCEPT !.phase = "closed"], "Network error"))

\* the response head arrives: the callback registers its listeners
ResponseHead(statusCode, body) ==
    /\ fetch.phase = "requested"
    /\ FetchStep([fetch EXCEPT !.phase = "receiving",
                               !.statusCode = statusCode,
                               !.body = body])

\* 'data': data += chunk
Data ==
    /\ fetch.phase = "receiving"
    /\ Len(fetch.data) < Len(fetch.body)
    /\ FetchStep([fetch EXCEPT !.data = Append(fetch.data,
                                               fetch.body[Len(fetch.data) + 1])])

\* 'end' after the whole body
End ==
    /\ fetch.phase = "receiving"
    /\ fetch.data = fetch.body
    /\ FetchStep(OnEnd([fetch EXCEPT !.phase = "ended"]))

\* the socket fails while the body arrives: 'error' on the request
SocketError ==
    /\ fetch.phase = "receiving"
    /\ FetchStep(Reject([fetch EXCEPT !.phase = "closed"], "Network error"))

(* The peer closes the connection before the body is complete.  The        *)
(* response then emits 'aborted', and 'error' only to listeners of the     *)
(* response, of which there are none; 'end' is not emitted, and no         *)
(* listener of fetchRawData runs.                                          *)
PrematureClose ==
    /\ fetch.phase = "receiving"
    /\ Len(fetch.data) < Len(fetch.body)
    /\ FetchStep([fetch EXCEPT !.phase = "closed"])

(* The same on a runtime that ends an aborted response (the older ones):   *)
(* 'end' is emitted with the part of the body that has arrived.            *)
PrematureEnd ==
    /\ fetch.phase = "receiving"
    /\ Len(fetch.data) < Len(fetch.body)
    /\ FetchStep(OnEnd([fetch EXCEPT !.phase = "closed"]))

NextFetch ==
    \/ Get
    \/ RequestError
    \/ \E statusCode \in StatusCodes, body \in Bodies :
           ResponseHead(statusCode, body)
    \/ Data
    \/ End
    \/ SocketError
    \/ PrematureClose
    \/ PrematureEnd

SpecFetch == InitFetch /\ [][NextFetch]_vars

\* the exchange is over: the response has ended or the connection is closed
ExchangeOver == fetch.phase \in {"ended", "closed"}

(* C25: the promise of fetchRawData settles exactly once: it resolves,     *)
(* with the parsed body, only when the response ended with status 200 and  *)
(* a body that parses as JSON; it rejects on a non-200 status, on a JSON   *)
(* parse failure and on a network error; it never resolves with partial    *)
(* data.                                                                   *)
C25_SettlesOnce ==
    /\ fetch.settlements <= 1
    /\ ExchangeOver => fetch.settlements = 1
    /\ fetch.promise = "resolved"
           => /\ fetch.phase = "ended"
              /\ fetch.statusCode = 200
              /\ fetch.data = fetch.body
              /\ fetch.body = JsonBody(upstream)
              /\ fetch.value = upstream
    /\ (ExchangeOver /\ ~(fetch.phase = "ended" /\ fetch.statusCode = 200
                            /\ fetch.body = JsonBody(upstream)))
           => fetch.promise = "rejected"

(***************************************************************************)
(* processData on fixes next to the equator: main after fetchRawData has   *)
(* resolved with MaxNearEquator daily fixes of one entity, each 2e-7       *)
(* degrees or one degree south of the equator, or five degrees north.      *)
(***************************************************************************)
MaxNearEquator == 8

NearEquatorLatitudes == {-2, Deg(-1), Deg(5)}

NearEquatorDatasets ==
    {[k \in 1..MaxNearEquator |-> Fix(TagA, T(k - 1), lat[k], Deg(25))] :
        lat \in [1..MaxNearEquator -> NearEquatorLatitudes]}

InitEquator ==
    /\ upstream \in NearEquatorDatasets
    /\ ingested = 0
    /\ pc = "fetched"
    /\ rawData = upstream
    /\ result = NoResult
    /\ file = NoFile
    /\ directCall = NoCall
    /\ calls = <<>>
    /\ http = NoHttp
    /\ fetch = NoFetch

SpecEquator == InitEquator /\ [][NextSummary]_vars

====
